---- MODULE Spec2Model ----
(***************************************************************************)
(* Two-button stopwatch / countdown timer firmware (src/arduino.cpp).      *)
(*                                                                         *)
(* The program is one polling loop over process-wide state.  One step of   *)
(* the model is one call of loop(): it reads the clock and the two button  *)
(* pins and runs the debouncers, the long-press handlers, the one-second   *)
(* tick, the LED section and the final render, in the order of the source. *)
(*                                                                         *)
(* Levels: HIGH is TRUE, LOW is FALSE (buttons are active-low).            *)
(* Time: millis() is an unsigned 32-bit counter.  A timestamp is kept as   *)
(* two 16-bit limbs [hi, lo] so that it wraps at 2^32 exactly as in the    *)
(* program.  Text: a C string is a sequence of one-character strings.      *)
(***************************************************************************)
EXTENDS Integers, Sequences, FiniteSets

VARIABLES
  currentMode, stopwatchSeconds, isStopwatchRunning,
  initialCountdownSetting, countdownSeconds, isCountdownRunning,
  countdownFinished,
  lastRawA, lastRawB, lastDebounceTimeA, lastDebounceTimeB, stableA, stableB,
  pressStartA, pressStartB, longAengaged, longBengaged, lastHoldRepeatB,
  lastTick, lastLedToggle, ledState,
  lastShownMode, lastLine0, lastLine1,
  now,        \* the value millis() returned in the latest loop() call
  ledPin,     \* level last written to LED_PIN
  lcdRow0, lcdRow1,  \* the 16 characters shown on each display row
  lcdWrites,  \* display rows rewritten during the latest loop() call
  renders,    \* one entry per updateLCD() call of the latest loop() call
  events,     \* branches of loop() taken during the latest call
  iter,       \* loop() calls made so far
  presses,    \* raw presses (HIGH to LOW changes) fed to the pins so far
  run,        \* the countdown run in progress: the duration it was loaded
              \* with, the ticks since, and whether no button branch was
              \* taken since
  hold        \* the presses in progress: the long-press firings of A and the
              \* hold firings of B since the press was accepted, when the
              \* presses were accepted and when the hold action of B last
              \* fired

vars == <<currentMode, stopwatchSeconds, isStopwatchRunning,
          initialCountdownSetting, countdownSeconds, isCountdownRunning,
          countdownFinished,
          lastRawA, lastRawB, lastDebounceTimeA, lastDebounceTimeB,
          stableA, stableB, pressStartA, pressStartB, longAengaged,
          longBengaged, lastHoldRepeatB, lastTick, lastLedToggle, ledState,
          lastShownMode, lastLine0, lastLine1,
          now, ledPin, lcdRow0, lcdRow1, lcdWrites, renders, events, iter,
          presses, run, hold>>

---------------------------------------------------------------------------
(* Program constants                                                       *)

HIGH == TRUE
LOW == FALSE

DEBOUNCE_MS == 50
LONGPRESS_MS == 800
HOLD_REPEAT_MS == 350
TICK_MS == 1000
LED_BLINK_MS == 500
TIMEUP_BLINK_MS == 700

COUNT_STEP == 10
COUNT_MIN == 10
COUNT_MAX == 300

LCD_COLS == 16

IDLE == "IDLE"
STOPWATCH == "STOPWATCH"
COUNTDOWN == "COUNTDOWN"
NO_MODE == "255"

---------------------------------------------------------------------------
(* unsigned long arithmetic                                                *)

LIMB == 65536

Millis(hi, lo) == [hi |-> hi, lo |-> lo]

\* t + d modulo 2^32, for 0 <= d < 2^16
TimeAdd(t, d) ==
  LET lo == t.lo + d
  IN  IF lo < LIMB THEN Millis(t.hi, lo)
      ELSE Millis((t.hi + 1) % LIMB, lo - LIMB)

\* The difference taken without the wrap: 0 once the clock has wrapped
\* below the recorded timestamp
Elapsed_NoWrap(n, t) ==
  IF n.hi < t.hi \/ (n.hi = t.hi /\ n.lo < t.lo) THEN 0
  ELSE IF n.hi = t.hi THEN n.lo - t.lo
  ELSE IF n.hi = t.hi + 1 /\ n.lo < t.lo THEN n.lo - t.lo + LIMB
  ELSE LIMB

\* The unsigned difference (n - t) modulo 2^32.  Every threshold of the
\* program is below 2^16, so a difference of 2^16 or more is reported as 2^16.
Elapsed(n, t) ==
  LET borrow == IF n.lo < t.lo THEN 1 ELSE 0
      lo == n.lo - t.lo + borrow * LIMB
      hi == (n.hi - t.hi - borrow + LIMB) % LIMB
  IN  IF hi = 0 THEN lo ELSE LIMB

---------------------------------------------------------------------------
(* Text                                                                    *)

Digit(d) == <<"0", "1", "2", "3", "4", "5", "6", "7", "8", "9">>[d + 1]

RECURSIVE Dec(_)
\* printf %d of a non-negative int
Dec(n) == IF n < 10 THEN <<Digit(n)>> ELSE Dec(n \div 10) \o <<Digit(n % 10)>>

\* printf %02d of a non-negative int
Dec02(n) == IF n < 10 THEN <<"0">> \o Dec(n) ELSE Dec(n)

\* snprintf(line, 17, ...): at most 16 characters are kept
Take16(txt) == IF Len(txt) > LCD_COLS THEN SubSeq(txt, 1, LCD_COLS) ELSE txt

BlankRow == [i \in 1..LCD_COLS |-> " "]

\* A row after lcd.print(16 spaces) and lcd.print(txt) from column 0
Printed(txt) == [i \in 1..LCD_COLS |-> IF i <= Len(txt) THEN txt[i] ELSE " "]

TXT_STOPWATCH == <<" ", " ", " ", "S", "T", "O", "P", "W", "A", "T", "C", "H">>
TXT_COUNTDOWN == <<" ", " ", " ", "C", "O", "U", "N", "T", "D", "O", "W", "N">>
TXT_TIMEUP == <<" ", " ", " ", "T", "I", "M", "E", " ", "U", "P", "!", " ", " ", " ", " ", " ">>
TXT_IDLE_A == <<"A", " ", ":", " ", "S", "t", "o", "p", "w", "a", "t", "c", "h">>
TXT_IDLE_B == <<"B", " ", ":", " ", "C", "D", " ", "F", "o", "r", " ", ":", " ">>
TXT_INDENT == <<" ", " ", " ", " ", " ">>

formatTime(totalSeconds) ==
  Dec02(totalSeconds \div 60) \o <<":">> \o Dec02(totalSeconds % 60)

TimeLine(totalSeconds) == Take16(TXT_INDENT \o formatTime(totalSeconds))

IdleLine(setting) == Take16(TXT_IDLE_B \o Dec(setting) \o <<"s">>)

---------------------------------------------------------------------------
(* Renderer.  s is the record of the program state.                        *)

\* safePrintLine with strncpy(cache, txt, 15): the cache misses a character
safePrintLine_ShortCache(s, row, txt) ==
  LET cache == IF row = 0 THEN s.lastLine0 ELSE s.lastLine1
      kept == IF Len(txt) > LCD_COLS - 1 THEN SubSeq(txt, 1, LCD_COLS - 1) ELSE txt
  IN  IF cache # txt
      THEN IF row = 0
           THEN [s EXCEPT !.lcdRow0 = Printed(txt), !.lastLine0 = kept,
                          !.lcdWrites = @ + 1]
           ELSE [s EXCEPT !.lcdRow1 = Printed(txt), !.lastLine1 = kept,
                          !.lcdWrites = @ + 1]
      ELSE s

\* strcmp(cache, txt) != 0 rewrites the row and caches its text (lines 62-72)
safePrintLine(s, row, txt) ==
  LET cache == IF row = 0 THEN s.lastLine0 ELSE s.lastLine1
  IN  IF cache # txt
      THEN IF row = 0
           THEN [s EXCEPT !.lcdRow0 = Printed(txt),
                          !.lastLine0 = Take16(txt),
                          !.lcdWrites = @ + 1]
           ELSE [s EXCEPT !.lcdRow1 = Printed(txt),
                          !.lastLine1 = Take16(txt),
                          !.lcdWrites = @ + 1]
      ELSE s

\* InvalidateCache without line 80 (lastShownMode is not updated)
InvalidateCache_KeepsShown(s) ==
  IF s.currentMode # s.lastShownMode
  THEN [s EXCEPT !.lastLine0 = <<>>, !.lastLine1 = <<>>]
  ELSE s

\* A mode change empties the line caches (lines 77-81)
InvalidateCache(s) ==
  IF s.currentMode # s.lastShownMode
  THEN [s EXCEPT !.lastLine0 = <<>>, !.lastLine1 = <<>>,
                 !.lastShownMode = s.currentMode]
  ELSE s

\* The render proper (lines 77-107)
Render(s0) ==
  LET s == InvalidateCache(s0)
  IN  IF s.currentMode = STOPWATCH
      THEN safePrintLine(safePrintLine(s, 0, TXT_STOPWATCH),
                         1, TimeLine(s.stopwatchSeconds))
      ELSE IF s.currentMode = COUNTDOWN
      THEN LET t == safePrintLine(s, 0, TXT_COUNTDOWN)
           IN  IF t.countdownSeconds > 0
               THEN safePrintLine(t, 1, TimeLine(t.countdownSeconds))
               ELSE [safePrintLine(t, 1, TXT_TIMEUP) EXCEPT !.ledPin = HIGH]
      ELSE safePrintLine(safePrintLine(s, 0, TXT_IDLE_A),
                         1, IdleLine(s.initialCountdownSetting))

\* What one updateLCD() call saw and did: the state it rendered, the mode
\* the cache was for, and the rows it rewrote
RenderEntry(s0, s1) ==
  [mode |-> s0.currentMode, shown |-> s0.lastShownMode,
   stopwatch |-> s0.stopwatchSeconds, countdown |-> s0.countdownSeconds,
   setting |-> s0.initialCountdownSetting,
   writes |-> s1.lcdWrites - s0.lcdWrites]

updateLCD(s0) ==
  LET s1 == Render(s0)
  IN  [s1 EXCEPT !.renders = Append(@, RenderEntry(s0, s1))]

---------------------------------------------------------------------------
(* loop(): the button handlers                                             *)

Note(s, e) == [s EXCEPT !.events = @ \cup {e}]

\* ShortClickA without line 143 (the countdown is left running)
ShortClickA_KeepsCountdown(s) ==
  LET t == IF s.currentMode # STOPWATCH
           THEN [s EXCEPT !.currentMode = STOPWATCH,
                          !.isStopwatchRunning = TRUE,
                          !.countdownFinished = FALSE]
           ELSE [s EXCEPT !.isStopwatchRunning = ~ @]
  IN  updateLCD(Note(t, "ShortA"))

\* ShortClickA whose pause / resume branch also zeroes the elapsed seconds
ShortClickA_ResetsElapsed(s) ==
  LET t == IF s.currentMode # STOPWATCH
           THEN [s EXCEPT !.currentMode = STOPWATCH,
                          !.isStopwatchRunning = TRUE,
                          !.isCountdownRunning = FALSE,
                          !.countdownFinished = FALSE]
           ELSE [s EXCEPT !.isStopwatchRunning = ~ @,
                          !.stopwatchSeconds = 0]
  IN  updateLCD(Note(t, "ShortA"))

\* short click A (lines 140-148)
ShortClickA(s) ==
  LET t == IF s.currentMode # STOPWATCH
           THEN [s EXCEPT !.currentMode = STOPWATCH,
                          !.isStopwatchRunning = TRUE,
                          !.isCountdownRunning = FALSE,
                          !.countdownFinished = FALSE]
           ELSE [s EXCEPT !.isStopwatchRunning = ~ @]
  IN  updateLCD(Note(t, "ShortA"))

\* ShortClickB without line 167 (the stopwatch is left running)
ShortClickB_KeepsStopwatch(s) ==
  LET t == [s EXCEPT !.currentMode = COUNTDOWN,
                     !.countdownFinished = FALSE]
      u == IF t.isCountdownRunning
           THEN [t EXCEPT !.isCountdownRunning = FALSE]
           ELSE IF t.countdownSeconds <= 0
           THEN Note([t EXCEPT !.countdownSeconds = t.initialCountdownSetting,
                               !.isCountdownRunning = TRUE], "Reload")
           ELSE [t EXCEPT !.isCountdownRunning = TRUE]
  IN  updateLCD(Note(u, "ShortB"))

\* ShortClickB without line 168 (countdownFinished is left as it is)
ShortClickB_KeepsFinished(s) ==
  LET t == [s EXCEPT !.currentMode = COUNTDOWN,
                     !.isStopwatchRunning = FALSE]
      u == IF t.isCountdownRunning
           THEN [t EXCEPT !.isCountdownRunning = FALSE]
           ELSE IF t.countdownSeconds <= 0
           THEN Note([t EXCEPT !.countdownSeconds = t.initialCountdownSetting,
                               !.isCountdownRunning = TRUE], "Reload")
           ELSE [t EXCEPT !.isCountdownRunning = TRUE]
  IN  updateLCD(Note(u, "ShortB"))

\* ShortClickB without the reload of lines 172-174
ShortClickB_NoReload(s) ==
  LET t == [s EXCEPT !.currentMode = COUNTDOWN,
                     !.isStopwatchRunning = FALSE,
                     !.countdownFinished = FALSE]
      u == [t EXCEPT !.isCountdownRunning = ~ @]
  IN  updateLCD(Note(u, "ShortB"))

\* ShortClickB that reloads the countdown whenever it starts it
ShortClickB_ResumeReloads(s) ==
  LET t == [s EXCEPT !.currentMode = COUNTDOWN,
                     !.isStopwatchRunning = FALSE,
                     !.countdownFinished = FALSE]
      u == IF t.isCountdownRunning
           THEN [t EXCEPT !.isCountdownRunning = FALSE]
           ELSE Note([t EXCEPT !.countdownSeconds = t.initialCountdownSetting,
                               !.isCountdownRunning = TRUE], "Reload")
  IN  updateLCD(Note(u, "ShortB"))

\* short click B (lines 166-178)
ShortClickB(s) ==
  LET t == [s EXCEPT !.currentMode = COUNTDOWN,
                     !.isStopwatchRunning = FALSE,
                     !.countdownFinished = FALSE]
      u == IF t.isCountdownRunning
           THEN [t EXCEPT !.isCountdownRunning = FALSE]
           ELSE IF t.countdownSeconds <= 0
           THEN Note([t EXCEPT !.countdownSeconds = t.initialCountdownSetting,
                               !.isCountdownRunning = TRUE], "Reload")
           ELSE [t EXCEPT !.isCountdownRunning = TRUE]
  IN  updateLCD(Note(u, "ShortB"))

\* The release path with held < LONGPRESS_MS - 1
IsShort_OffByOne(engaged, held) == ~ engaged /\ held < LONGPRESS_MS - 1

\* The release path with held <= LONGPRESS_MS
IsShort_Inclusive(engaged, held) == ~ engaged /\ held <= LONGPRESS_MS

\* held < LONGPRESS_MS on the release path (lines 138, 164)
IsShort(engaged, held) == ~ engaged /\ held < LONGPRESS_MS

\* The debounce test with >= in place of >
Settled_Inclusive(n, lastDebounceTime) ==
  Elapsed(n, lastDebounceTime) >= DEBOUNCE_MS

\* (now - lastDebounceTime) > DEBOUNCE_MS (lines 131, 156)
Settled(n, lastDebounceTime) == Elapsed(n, lastDebounceTime) > DEBOUNCE_MS

\* Debounce A (lines 130-152)
DebounceA(s0, n, rawA) ==
  LET s == IF rawA # s0.lastRawA
           THEN [s0 EXCEPT !.lastDebounceTimeA = n] ELSE s0
      t == IF Settled(n, s.lastDebounceTimeA) /\ s.stableA # rawA
           THEN IF rawA = LOW
                THEN Note([s EXCEPT !.stableA = rawA, !.pressStartA = n,
                                    !.longAengaged = FALSE], "PressA")
                ELSE LET r == Note([s EXCEPT !.stableA = rawA], "ReleaseA")
                     IN  IF IsShort(r.longAengaged, Elapsed(n, r.pressStartA))
                         THEN ShortClickA(r) ELSE r
           ELSE s
  IN  [t EXCEPT !.lastRawA = rawA]

\* Debounce B (lines 155-182)
DebounceB(s0, n, rawB) ==
  LET s == IF rawB # s0.lastRawB
           THEN [s0 EXCEPT !.lastDebounceTimeB = n] ELSE s0
      t == IF Settled(n, s.lastDebounceTimeB) /\ s.stableB # rawB
           THEN IF rawB = LOW
                THEN Note([s EXCEPT !.stableB = rawB, !.pressStartB = n,
                                    !.longBengaged = FALSE,
                                    !.lastHoldRepeatB = n], "PressB")
                ELSE LET r == Note([s EXCEPT !.stableB = rawB], "ReleaseB")
                     IN  IF IsShort(r.longBengaged, Elapsed(n, r.pressStartB))
                         THEN ShortClickB(r) ELSE r
           ELSE s
  IN  [t EXCEPT !.lastRawB = rawB]

\* ResetAll without line 191 (countdownFinished is left as it is)
ResetAll_KeepsFinished(s) ==
  updateLCD(Note([s EXCEPT !.longAengaged = TRUE,
                           !.stopwatchSeconds = 0,
                           !.countdownSeconds = 0,
                           !.isStopwatchRunning = FALSE,
                           !.isCountdownRunning = FALSE,
                           !.currentMode = IDLE,
                           !.ledPin = LOW], "LongA"))

\* The reset performed by a long press of A (lines 186-194)
ResetAll(s) ==
  updateLCD(Note([s EXCEPT !.longAengaged = TRUE,
                           !.stopwatchSeconds = 0,
                           !.countdownSeconds = 0,
                           !.isStopwatchRunning = FALSE,
                           !.isCountdownRunning = FALSE,
                           !.countdownFinished = FALSE,
                           !.currentMode = IDLE,
                           !.ledPin = LOW], "LongA"))

\* HoldA without the !longAengaged test of line 185
HoldA_Refires(s, n) ==
  IF s.stableA = LOW /\ Elapsed(n, s.pressStartA) >= LONGPRESS_MS
  THEN ResetAll(s) ELSE s

\* Hold A: reset everything (lines 185-195)
HoldA(s, n) ==
  IF s.stableA = LOW /\ Elapsed(n, s.pressStartA) >= LONGPRESS_MS
     /\ ~ s.longAengaged
  THEN ResetAll(s) ELSE s

\* The wrap taken one step early (>= in place of >)
NextSetting_WrapEarly(v) ==
  IF v + COUNT_STEP >= COUNT_MAX THEN COUNT_MIN ELSE v + COUNT_STEP

\* The increment without the wrap of line 201
NextSetting_NoWrap(v) == v + COUNT_STEP

\* initialCountdownSetting += COUNT_STEP with the wrap (lines 200-201)
NextSetting(v) ==
  IF v + COUNT_STEP > COUNT_MAX THEN COUNT_MIN ELSE v + COUNT_STEP

\* BumpSetting that also stops both timers
BumpSetting_StopsTimers(s, n) ==
  LET t == [s EXCEPT !.initialCountdownSetting = NextSetting(@),
                     !.currentMode = IDLE,
                     !.isStopwatchRunning = FALSE,
                     !.isCountdownRunning = FALSE]
  IN  [updateLCD(Note(t, "HoldB")) EXCEPT !.lastHoldRepeatB = n]

\* One firing of the B hold action (lines 200-204)
BumpSetting(s, n) ==
  LET t == [s EXCEPT !.initialCountdownSetting = NextSetting(@),
                     !.currentMode = IDLE]
  IN  [updateLCD(Note(t, "HoldB")) EXCEPT !.lastHoldRepeatB = n]

\* HoldB without the repeat-interval test of line 199
HoldB_NoCadence(s, n) ==
  IF s.stableB = LOW /\ Elapsed(n, s.pressStartB) >= LONGPRESS_MS
  THEN [BumpSetting(s, n) EXCEPT !.longBengaged = TRUE]
  ELSE s

\* Hold B: increase the countdown setting (lines 198-207)
HoldB(s, n) ==
  IF s.stableB = LOW /\ Elapsed(n, s.pressStartB) >= LONGPRESS_MS
  THEN LET t == IF Elapsed(n, s.lastHoldRepeatB) >= HOLD_REPEAT_MS
                THEN BumpSetting(s, n) ELSE s
       IN  [t EXCEPT !.longBengaged = TRUE]
  ELSE s

---------------------------------------------------------------------------
(* loop(): the one-second tick and the LED                                 *)

\* The stopwatch half of a tick (lines 213-216)
TickStopwatch(s) ==
  IF s.isStopwatchRunning
  THEN LET t == [s EXCEPT !.stopwatchSeconds = @ + 1]
       IN  IF t.currentMode = STOPWATCH THEN updateLCD(t) ELSE t
  ELSE s

\* TickCountdown without lines 223-224 (expiry is never flagged)
TickCountdown_NoExpiry(s) ==
  IF s.isCountdownRunning /\ s.countdownSeconds > 0
  THEN LET t == [s EXCEPT !.countdownSeconds = @ - 1]
           u == IF t.currentMode = COUNTDOWN THEN updateLCD(t) ELSE t
       IN  IF u.countdownSeconds = 0 THEN updateLCD(u) ELSE u
  ELSE s

\* The countdown half of a tick (lines 218-228)
TickCountdown(s) ==
  IF s.isCountdownRunning /\ s.countdownSeconds > 0
  THEN LET t == [s EXCEPT !.countdownSeconds = @ - 1]
           u == IF t.currentMode = COUNTDOWN THEN updateLCD(t) ELSE t
       IN  IF u.countdownSeconds = 0
           THEN updateLCD(Note([u EXCEPT !.isCountdownRunning = FALSE,
                                         !.countdownFinished = TRUE],
                               "Expire"))
           ELSE u
  ELSE s

\* Tick 1-second (lines 210-229)
Tick(s, n) ==
  IF Elapsed(n, s.lastTick) >= TICK_MS
  THEN TickCountdown(TickStopwatch(Note([s EXCEPT !.lastTick = n], "Tick")))
  ELSE s

\* Toggle the LED when the blink period has passed (lines 233-237, 240-244)
Blink(s, n, period) ==
  IF Elapsed(n, s.lastLedToggle) >= period
  THEN [s EXCEPT !.lastLedToggle = n, !.ledState = ~ @, !.ledPin = ~ s.ledState]
  ELSE s

\* LED behavior (lines 232-248)
LedBehavior(s, n) ==
  IF s.isStopwatchRunning \/ s.isCountdownRunning
  THEN Blink(s, n, LED_BLINK_MS)
  ELSE IF s.countdownFinished
  THEN Blink(s, n, TIMEUP_BLINK_MS)
  ELSE [s EXCEPT !.ledPin = LOW, !.ledState = LOW]

---------------------------------------------------------------------------
(* loop() as a whole, stage by stage                                       *)

AtEntry(s) == [s EXCEPT !.events = {}, !.lcdWrites = 0, !.renders = <<>>]
AfterA(s, n, rawA) == DebounceA(AtEntry(s), n, rawA)
AfterB(s, n, rawA, rawB) == DebounceB(AfterA(s, n, rawA), n, rawB)
AfterHoldA(s, n, rawA, rawB) == HoldA(AfterB(s, n, rawA, rawB), n)
AfterHoldB(s, n, rawA, rawB) == HoldB(AfterHoldA(s, n, rawA, rawB), n)
AfterTick(s, n, rawA, rawB) == Tick(AfterHoldB(s, n, rawA, rawB), n)
AfterLed(s, n, rawA, rawB) == LedBehavior(AfterTick(s, n, rawA, rawB), n)

loop(s, n, rawA, rawB) == updateLCD(AfterLed(s, n, rawA, rawB))

---------------------------------------------------------------------------
(* State after construction: the global initialisers (lines 23-53) and     *)
(* setup() (lines 111-121)                                                 *)

Globals ==
  [currentMode |-> IDLE,
   stopwatchSeconds |-> 0,
   isStopwatchRunning |-> FALSE,
   initialCountdownSetting |-> 10,
   countdownSeconds |-> 0,
   isCountdownRunning |-> FALSE,
   countdownFinished |-> FALSE,
   lastRawA |-> HIGH,
   lastRawB |-> HIGH,
   lastDebounceTimeA |-> Millis(0, 0),
   lastDebounceTimeB |-> Millis(0, 0),
   stableA |-> HIGH,
   stableB |-> HIGH,
   pressStartA |-> Millis(0, 0),
   pressStartB |-> Millis(0, 0),
   longAengaged |-> FALSE,
   longBengaged |-> FALSE,
   lastHoldRepeatB |-> Millis(0, 0),
   lastTick |-> Millis(0, 0),
   lastLedToggle |-> Millis(0, 0),
   ledState |-> LOW,
   lastShownMode |-> IDLE,
   lastLine0 |-> <<>>,
   lastLine1 |-> <<>>,
   ledPin |-> LOW,
   lcdRow0 |-> BlankRow,
   lcdRow1 |-> BlankRow,
   lcdWrites |-> 0,
   renders |-> <<>>,
   events |-> {}]

setup == updateLCD([Globals EXCEPT !.lastShownMode = NO_MODE])

\* The program state as a record
Cur ==
  [currentMode |-> currentMode,
   stopwatchSeconds |-> stopwatchSeconds,
   isStopwatchRunning |-> isStopwatchRunning,
   initialCountdownSetting |-> initialCountdownSetting,
   countdownSeconds |-> countdownSeconds,
   isCountdownRunning |-> isCountdownRunning,
   countdownFinished |-> countdownFinished,
   lastRawA |-> lastRawA,
   lastRawB |-> lastRawB,
   lastDebounceTimeA |-> lastDebounceTimeA,
   lastDebounceTimeB |-> lastDebounceTimeB,
   stableA |-> stableA,
   stableB |-> stableB,
   pressStartA |-> pressStartA,
   pressStartB |-> pressStartB,
   longAengaged |-> longAengaged,
   longBengaged |-> longBengaged,
   lastHoldRepeatB |-> lastHoldRepeatB,
   lastTick |-> lastTick,
   lastLedToggle |-> lastLedToggle,
   ledState |-> ledState,
   lastShownMode |-> lastShownMode,
   lastLine0 |-> lastLine0,
   lastLine1 |-> lastLine1,
   ledPin |-> ledPin,
   lcdRow0 |-> lcdRow0,
   lcdRow1 |-> lcdRow1,
   lcdWrites |-> lcdWrites,
   renders |-> renders,
   events |-> events]

\* The program state becomes r
Becomes(r) ==
  /\ currentMode' = r.currentMode
  /\ stopwatchSeconds' = r.stopwatchSeconds
  /\ isStopwatchRunning' = r.isStopwatchRunning
  /\ initialCountdownSetting' = r.initialCountdownSetting
  /\ countdownSeconds' = r.countdownSeconds
  /\ isCountdownRunning' = r.isCountdownRunning
  /\ countdownFinished' = r.countdownFinished
  /\ lastRawA' = r.lastRawA
  /\ lastRawB' = r.lastRawB
  /\ lastDebounceTimeA' = r.lastDebounceTimeA
  /\ lastDebounceTimeB' = r.lastDebounceTimeB
  /\ stableA' = r.stableA
  /\ stableB' = r.stableB
  /\ pressStartA' = r.pressStartA
  /\ pressStartB' = r.pressStartB
  /\ longAengaged' = r.longAengaged
  /\ longBengaged' = r.longBengaged
  /\ lastHoldRepeatB' = r.lastHoldRepeatB
  /\ lastTick' = r.lastTick
  /\ lastLedToggle' = r.lastLedToggle
  /\ ledState' = r.ledState
  /\ lastShownMode' = r.lastShownMode
  /\ lastLine0' = r.lastLine0
  /\ lastLine1' = r.lastLine1
  /\ ledPin' = r.ledPin
  /\ lcdRow0' = r.lcdRow0
  /\ lcdRow1' = r.lcdRow1
  /\ lcdWrites' = r.lcdWrites
  /\ renders' = r.renders
  /\ events' = r.events

StartsAt(r, t) ==
  /\ currentMode = r.currentMode
  /\ stopwatchSeconds = r.stopwatchSeconds
  /\ isStopwatchRunning = r.isStopwatchRunning
  /\ initialCountdownSetting = r.initialCountdownSetting
  /\ countdownSeconds = r.countdownSeconds
  /\ isCountdownRunning = r.isCountdownRunning
  /\ countdownFinished = r.countdownFinished
  /\ lastRawA = r.lastRawA
  /\ lastRawB = r.lastRawB
  /\ lastDebounceTimeA = r.lastDebounceTimeA
  /\ lastDebounceTimeB = r.lastDebounceTimeB
  /\ stableA = r.stableA
  /\ stableB = r.stableB
  /\ pressStartA = r.pressStartA
  /\ pressStartB = r.pressStartB
  /\ longAengaged = r.longAengaged
  /\ longBengaged = r.longBengaged
  /\ lastHoldRepeatB = r.lastHoldRepeatB
  /\ lastTick = r.lastTick
  /\ lastLedToggle = r.lastLedToggle
  /\ ledState = r.ledState
  /\ lastShownMode = r.lastShownMode
  /\ lastLine0 = r.lastLine0
  /\ lastLine1 = r.lastLine1
  /\ ledPin = r.ledPin
  /\ lcdRow0 = r.lcdRow0
  /\ lcdRow1 = r.lcdRow1
  /\ lcdWrites = r.lcdWrites
  /\ renders = r.renders
  /\ events = r.events
  /\ now = t
  /\ iter = 0
  /\ presses = 0
  /\ run = [loaded |-> 0, ticks |-> 0, clean |-> FALSE, quiet |-> FALSE]
  /\ hold = [firedA |-> 0, firedB |-> 0, pressedA |-> t, pressedB |-> t,
             lastB |-> t]

---------------------------------------------------------------------------
(* The environment: the clock and the two pins                             *)

\* loop() calls explored from the start
MaxIter == 7

\* Gaps between two loop() calls: just over the debounce window, and the
\* long-press threshold
Gaps == {DEBOUNCE_MS + 1, LONGPRESS_MS}

ButtonEvents ==
  {"PressA", "ReleaseA", "ShortA", "LongA", "PressB", "ReleaseB", "ShortB", "HoldB"}

\* The countdown run after a loop() call that took the branches ev: a reload
\* starts a new run; otherwise the ticks are counted and any button branch
\* is remembered
RunAfter(ev, setting, rawA, rawB) ==
  LET tick == IF "Tick" \in ev THEN 1 ELSE 0
      idle == rawA = HIGH /\ rawB = HIGH
  IN  IF "Reload" \in ev
      THEN [loaded |-> setting, ticks |-> tick,
            clean |-> ev \cap {"LongA", "HoldB"} = {}, quiet |-> idle]
      ELSE [loaded |-> run.loaded, ticks |-> run.ticks + tick,
            clean |-> run.clean /\ ev \cap ButtonEvents = {},
            quiet |-> run.quiet /\ idle]

\* The presses in progress after a loop() call at n that took the branches
\* ev.  A press is forgotten in the call after the one that accepted its
\* release.
HoldAfter(ev, n) ==
  LET newA == "PressA" \in ev \/ stableA = HIGH
      newB == "PressB" \in ev \/ stableB = HIGH
  IN  [firedA |-> (IF newA THEN 0 ELSE hold.firedA)
                    + (IF "LongA" \in ev THEN 1 ELSE 0),
       firedB |-> (IF newB THEN 0 ELSE hold.firedB)
                    + (IF "HoldB" \in ev THEN 1 ELSE 0),
       pressedA |-> IF newA THEN n ELSE hold.pressedA,
       pressedB |-> IF newB THEN n ELSE hold.pressedB,
       lastB |-> IF "HoldB" \in ev THEN n
                 ELSE IF newB THEN n ELSE hold.lastB]

\* One call of loop(), dt after the previous one, reading rawA and rawB
LoopStep(dt, rawA, rawB) ==
  /\ now' = TimeAdd(now, dt)
  /\ iter' = iter + 1
  /\ presses' = presses + (IF lastRawA = HIGH /\ rawA = LOW THEN 1 ELSE 0)
                         + (IF lastRawB = HIGH /\ rawB = LOW THEN 1 ELSE 0)
  /\ \E r \in {loop(Cur, now', rawA, rawB)} :
       /\ Becomes(r)
       /\ run' = RunAfter(r.events, r.initialCountdownSetting, rawA, rawB)
       /\ hold' = HoldAfter(r.events, now')

Init == StartsAt(setup, Millis(0, 0))

Next ==
  /\ iter < MaxIter
  /\ \E dt \in Gaps, rawA \in BOOLEAN, rawB \in BOOLEAN : LoopStep(dt, rawA, rawB)

Spec == Init /\ [][Next]_vars

---------------------------------------------------------------------------
(* Presses released around the long-press threshold                        *)

\* Gaps that put a release at 799, 800 or 851 after the press was accepted
EdgeGaps ==
  {DEBOUNCE_MS + 1, LONGPRESS_MS - DEBOUNCE_MS - 2, LONGPRESS_MS - DEBOUNCE_MS - 1}

\* One button at a time
EdgeNext ==
  /\ iter < MaxIter - 1
  /\ \E dt \in EdgeGaps, rawA \in BOOLEAN, rawB \in BOOLEAN :
       /\ rawA = HIGH \/ rawB = HIGH
       /\ LoopStep(dt, rawA, rawB)

SpecEdge == Init /\ [][EdgeNext]_vars

---------------------------------------------------------------------------
(* Contact bounce: a pin never stays LOW for longer than the debounce      *)
(* window                                                                  *)

BounceGaps == {DEBOUNCE_MS \div 2, DEBOUNCE_MS}

\* The pin may read LOW again only within DEBOUNCE_MS of the sample that
\* first read it LOW (which lastDebounceTime records)
Bouncing(raw, lastRaw, lastDebounceTime, n) ==
  (raw = LOW /\ lastRaw = LOW) => Elapsed(n, lastDebounceTime) <= DEBOUNCE_MS

BounceNext ==
  /\ iter < MaxIter
  /\ \E dt \in BounceGaps, rawA \in BOOLEAN, rawB \in BOOLEAN :
       /\ Bouncing(rawA, lastRawA, lastDebounceTimeA, TimeAdd(now, dt))
       /\ Bouncing(rawB, lastRawB, lastDebounceTimeB, TimeAdd(now, dt))
       /\ LoopStep(dt, rawA, rawB)

SpecBounce == Init /\ [][BounceNext]_vars

---------------------------------------------------------------------------
(* Long runs: one finger, clean contacts                                   *)

\* loop() calls explored in a long run
MaxIterLong == 36

\* Presses made in a long run
MaxPresses == 2

Pending == lastRawA # stableA \/ lastRawB # stableB
Held == stableA = LOW \/ stableB = LOW
Active == isStopwatchRunning \/ isCountdownRunning \/ countdownFinished

\* The gap before the next loop() call: a changed pin is read again just
\* after the debounce window; a held button is polled at the repeat period;
\* otherwise the next call is at the moment of a press, or a tick later.
LongGap(rawA, rawB) ==
  IF Pending THEN DEBOUNCE_MS + 1
  ELSE IF Held THEN HOLD_REPEAT_MS
  ELSE IF rawA = LOW \/ rawB = LOW THEN DEBOUNCE_MS + 1
  ELSE TICK_MS

\* One call of loop() in a long run, with at most maxPresses presses
LongStep(rawA, rawB, maxPresses) ==
  /\ Pending => rawA = lastRawA /\ rawB = lastRawB
  /\ rawA = HIGH \/ rawB = HIGH
  /\ (lastRawA = HIGH /\ rawA = LOW) \/ (lastRawB = HIGH /\ rawB = LOW)
       => presses < maxPresses
  /\ (~ Pending /\ ~ Held /\ rawA = HIGH /\ rawB = HIGH) => Active
  /\ LoopStep(LongGap(rawA, rawB), rawA, rawB)

LongNext ==
  /\ iter < MaxIterLong
  /\ \E rawA \in BOOLEAN, rawB \in BOOLEAN : LongStep(rawA, rawB, MaxPresses)

SpecLong == Init /\ [][LongNext]_vars

---------------------------------------------------------------------------
(* Long runs of button B alone: configuring, starting and reconfiguring    *)
(* the countdown                                                           *)

ConfigNext ==
  /\ iter < MaxIterLong + 10
  /\ \E rawB \in BOOLEAN : LongStep(HIGH, rawB, MaxPresses + 1)

SpecConfig == Init /\ [][ConfigNext]_vars

---------------------------------------------------------------------------
(* Long runs of button B alone in which loop() keeps being called          *)

ExpiryNext ==
  /\ iter < MaxIterLong
  /\ \E rawB \in BOOLEAN : LongStep(HIGH, rawB, MaxPresses)

\* The runtime calls loop() again
Called == iter < MaxIterLong /\ iter' = iter + 1

SpecExpiry == Init /\ [][ExpiryNext]_vars /\ WF_iter(Called)

---------------------------------------------------------------------------
(* Long runs of short clicks of either button, no button held              *)

\* Two presses more than in the other long runs: start a stopwatch, then
\* start, pause and resume a countdown
ClickNext ==
  /\ iter < MaxIterLong
  /\ \E rawA \in BOOLEAN, rawB \in BOOLEAN :
       /\ Held => rawA = HIGH /\ rawB = HIGH
       /\ LongStep(rawA, rawB, MaxPresses + 2)

SpecClicks == Init /\ [][ClickNext]_vars

---------------------------------------------------------------------------
(* Button B held and polled faster than the repeat interval                *)

\* Gaps that put loop() calls 750 and 800 after the press was accepted, and
\* 300 and 350 after a firing
HoldGaps == {DEBOUNCE_MS, HOLD_REPEAT_MS}

HoldNext ==
  /\ iter < 2 * MaxIter
  /\ \E dt \in HoldGaps, rawB \in BOOLEAN :
       /\ lastRawB # stableB => rawB = lastRawB
       /\ (lastRawB = HIGH /\ rawB = LOW) => presses < MaxPresses
       /\ LoopStep(dt, HIGH, rawB)

SpecHold == Init /\ [][HoldNext]_vars

---------------------------------------------------------------------------
(* Runs across the wrap of millis(): the device has idled since boot until *)
(* shortly before the clock wraps, then the buttons are used               *)

\* loop() calls explored across the wrap
MaxIterWrap == 14

\* How long before the wrap the run starts
WrapLeads == {80, 300, 1200, 2400}

\* A moment before every start, from which plain (unwrapped) time is counted
WrapOrigin == Millis(LIMB - 1, LIMB - 4000)
Since(t) == Elapsed(t, WrapOrigin)

\* The state at the end of an idle loop() call at t0 + TICK_MS, the previous
\* tick having been taken at t0: since boot only the tick has touched the
\* state
Idled(t0) ==
  loop([setup EXCEPT !.lastTick = t0], TimeAdd(t0, TICK_MS), HIGH, HIGH)

WrapInit ==
  \E lead \in WrapLeads :
    \E t0 \in {Millis(LIMB - 1, LIMB - lead - TICK_MS)} :
      StartsAt(Idled(t0), TimeAdd(t0, TICK_MS))

WrapNext ==
  /\ iter < MaxIterWrap
  /\ \E rawA \in BOOLEAN, rawB \in BOOLEAN : LongStep(rawA, rawB, MaxPresses)

SpecWrap == WrapInit /\ [][WrapNext]_vars

\* A timestamp, and every timestamp of a state, moved by half the clock range
Shift(t) == Millis((t.hi + LIMB \div 2) % LIMB, t.lo)

Shifted(s) ==
  [s EXCEPT !.lastDebounceTimeA = Shift(@), !.lastDebounceTimeB = Shift(@),
            !.pressStartA = Shift(@), !.pressStartB = Shift(@),
            !.lastHoldRepeatB = Shift(@), !.lastTick = Shift(@),
            !.lastLedToggle = Shift(@)]

---------------------------------------------------------------------------
(* Properties                                                              *)

\* C1  Mode exclusivity: at the end of every loop() call the stopwatch and
\* the countdown are never both running, whatever button events and ticks
\* the call handled (A and B events in the same call included).
C1_ModeExclusivity == ~ (isStopwatchRunning /\ isCountdownRunning)

\* A call that handled a short click of A and then a short click of B
C1_Witness ==
  /\ {"ShortA", "ShortB"} \subseteq events
  /\ isCountdownRunning
  /\ ~ isStopwatchRunning

\* C4 as stated: a running flag implies that its own mode is the selected one.
C4_RunningImpliesOwnMode ==
  /\ isStopwatchRunning => currentMode = STOPWATCH
  /\ isCountdownRunning => currentMode = COUNTDOWN

\* C4 as amended: a running flag implies that its own mode is selected or
\* that the mode is IDLE; a timer never runs while the other timer's mode is
\* the selected one.
C4_NeverRunsInOtherMode ==
  /\ isStopwatchRunning => currentMode \in {STOPWATCH, IDLE}
  /\ isCountdownRunning => currentMode \in {COUNTDOWN, IDLE}

\* A B hold has forced IDLE while the stopwatch keeps running
C4_Witness ==
  /\ "HoldB" \in events
  /\ currentMode = IDLE
  /\ isStopwatchRunning

\* Two updateLCD() calls rendered the same mode and the same values
SameView(a, b) ==
  /\ a.mode = b.mode
  /\ a.stopwatch = b.stopwatch
  /\ a.countdown = b.countdown
  /\ a.setting = b.setting

\* C9  Render idempotence: an updateLCD() call that follows another one with
\* nothing to show changed in between rewrites no display row; and a call
\* that finds currentMode different from lastShownMode rewrites both rows,
\* once each.  The calls compared are the last one of the previous loop()
\* call and those of the current one, in order.
C9_RenderIdempotence ==
  [][\E calls \in {<<renders[Len(renders)]>> \o renders'} :
       \A i \in 2..Len(calls) :
         /\ SameView(calls[i - 1], calls[i]) => calls[i].writes = 0
         /\ calls[i].mode # calls[i].shown => calls[i].writes = 2]_vars

\* A loop() call whose first render repainted both rows for a new mode and
\* whose next render, of the same state, wrote nothing
C9_Witness ==
  /\ Len(renders) >= 2
  /\ renders[1].mode # renders[1].shown
  /\ renders[1].writes = 2
  /\ SameView(renders[1], renders[2])
  /\ renders[2].writes = 0


\* C6  Debounce stability: while neither pin reads LOW for longer than the
\* debounce window (50) at a time, however often it flips, the stable levels
\* stay released and no press, release, short-press, long-press or
\* hold-repeat branch is taken.
C6_DebounceStability ==
  /\ stableA = HIGH
  /\ stableB = HIGH
  /\ events \cap ButtonEvents = {}

\* Pin A has read LOW for exactly the debounce window and is not accepted
C6_Witness ==
  /\ lastRawA = LOW
  /\ Elapsed(now, lastDebounceTimeA) = DEBOUNCE_MS
  /\ stableA = HIGH

\* C7 as stated, for button A: a release accepted 799 after the press was
\* accepted performs the short click; a release accepted 800 or more after
\* it belongs to a press whose long-press action has fired, and performs no
\* short click.
C7_LongAtOrAboveThreshold ==
  /\ ("ReleaseA" \in events /\ Elapsed(now, pressStartA) = LONGPRESS_MS - 1)
       => "ShortA" \in events
  /\ ("ReleaseA" \in events /\ Elapsed(now, pressStartA) >= LONGPRESS_MS)
       => longAengaged /\ "ShortA" \notin events

\* C7 as amended, for button A: a release accepted 799 after the press was
\* accepted performs the short click.  The long-press action fires in the
\* first loop() call that finds A still stable-pressed 800 or more after the
\* press, in no other call, and so once per press; a release accepted after
\* it has fired, or 800 or more after the press, performs no short click.
C7_ShortLongBoundary ==
  [][\E held \in {Elapsed(now', pressStartA')} :
       /\ ("ReleaseA" \in events' /\ held = LONGPRESS_MS - 1)
            => "ShortA" \in events'
       /\ (stableA' = LOW /\ held >= LONGPRESS_MS)
            => longAengaged' /\ ("LongA" \in events' <=> ~ longAengaged)
       /\ "LongA" \in events' => stableA' = LOW /\ held >= LONGPRESS_MS
       /\ ("ReleaseA" \in events' /\ (longAengaged \/ held >= LONGPRESS_MS))
            => "ShortA" \notin events']_vars

\* The long-press action of A fires exactly at the threshold
C7_Witness ==
  /\ "LongA" \in events
  /\ Elapsed(now, pressStartA) = LONGPRESS_MS
  /\ currentMode = IDLE

\* C8 as stated: a release accepted exactly 800 after the press, with no
\* long-press seen before, performs the short click of that button.
C8_BoundaryIsShort ==
  /\ ("ReleaseA" \in events /\ Elapsed(now, pressStartA) = LONGPRESS_MS
        /\ ~ longAengaged) => "ShortA" \in events
  /\ ("ReleaseB" \in events /\ Elapsed(now, pressStartB) = LONGPRESS_MS
        /\ ~ longBengaged) => "ShortB" \in events

\* C8 as amended: a release accepted exactly 800 after the press is not a
\* short press (the short path needs held < 800): the call performs neither
\* the short click nor the long-press / hold action of that button.
C8_BoundaryIsNotShort ==
  /\ ("ReleaseA" \in events /\ Elapsed(now, pressStartA) = LONGPRESS_MS)
       => events \cap {"ShortA", "LongA"} = {}
  /\ ("ReleaseB" \in events /\ Elapsed(now, pressStartB) = LONGPRESS_MS)
       => events \cap {"ShortB", "HoldB"} = {}

\* B released exactly at the threshold, no long press seen before
C8_Witness ==
  /\ "ReleaseB" \in events
  /\ Elapsed(now, pressStartB) = LONGPRESS_MS
  /\ ~ longBengaged


\* C2 as stated: the remaining seconds are always within 0 and the
\* configured duration.
C2_RemainingWithinSetting ==
  /\ 0 <= countdownSeconds
  /\ countdownSeconds <= initialCountdownSetting

\* C2 as amended: the remaining seconds are always within 0 and the duration
\* the countdown was last loaded with, which is at most COUNT_MAX (300); they
\* can exceed the configured duration once a B hold has wrapped it from 300
\* to 10.
C2_RemainingWithinLoaded ==
  /\ 0 <= countdownSeconds
  /\ countdownSeconds <= run.loaded
  /\ run.loaded <= COUNT_MAX

\* A B hold has wrapped the setting below the remaining seconds
C2_Witness ==
  /\ "HoldB" \in events
  /\ initialCountdownSetting = COUNT_MIN
  /\ countdownSeconds > initialCountdownSetting

\* C3  Countdown clamp: the configured duration is always a multiple of 10
\* within [10, 300]; a firing of the B hold action at a value below 300 adds
\* exactly 10, a firing at 300 wraps it to exactly 10, and a loop() call
\* without a firing leaves it as it is.
C3_CountdownClamp ==
  [][/\ initialCountdownSetting' \in
          {COUNT_STEP * k : k \in 1..(COUNT_MAX \div COUNT_STEP)}
     /\ IF "HoldB" \in events'
        THEN IF initialCountdownSetting < COUNT_MAX
             THEN initialCountdownSetting' = initialCountdownSetting + COUNT_STEP
             ELSE initialCountdownSetting' = COUNT_MIN
        ELSE initialCountdownSetting' = initialCountdownSetting]_vars

\* A firing has wrapped the setting from 300 to 10
C3_Witness ==
  /\ "HoldB" \in events
  /\ initialCountdownSetting = COUNT_MIN
  /\ Elapsed(now, pressStartB) > LONGPRESS_MS + HOLD_REPEAT_MS

\* C5 as stated: right after each button action that assigns currentMode
\* (short click of A entering the stopwatch, short click of B, long press of
\* A, B hold firing) countdownFinished is false.
C5_ClearedByEveryModeChange ==
  [][\E a \in {AfterA(Cur, now', lastRawA')},
        b \in {AfterB(Cur, now', lastRawA', lastRawB')},
        ha \in {AfterHoldA(Cur, now', lastRawA', lastRawB')},
        hb \in {AfterHoldB(Cur, now', lastRawA', lastRawB')} :
       /\ ("ShortA" \in a.events /\ currentMode # STOPWATCH)
            => ~ a.countdownFinished
       /\ "ShortB" \in b.events => ~ b.countdownFinished
       /\ "LongA" \in ha.events => ~ ha.countdownFinished
       /\ "HoldB" \in hb.events => ~ hb.countdownFinished]_vars

\* C5 as amended: right after a short click of A entering the stopwatch, a
\* short click of B, or a long press of A, countdownFinished is false; a
\* firing of the B hold action, which forces IDLE, leaves countdownFinished
\* as it was.
C5_ClearedByClicksAndReset ==
  [][\E a \in {AfterA(Cur, now', lastRawA')},
        b \in {AfterB(Cur, now', lastRawA', lastRawB')},
        ha \in {AfterHoldA(Cur, now', lastRawA', lastRawB')},
        hb \in {AfterHoldB(Cur, now', lastRawA', lastRawB')} :
       /\ ("ShortA" \in a.events /\ currentMode # STOPWATCH)
            => ~ a.countdownFinished
       /\ "ShortB" \in b.events => ~ b.countdownFinished
       /\ "LongA" \in ha.events => ~ ha.countdownFinished
       /\ "HoldB" \in hb.events
            => hb.countdownFinished = ha.countdownFinished]_vars

\* A B hold has forced IDLE after an expiry and the flag is still set
C5_Witness ==
  /\ "HoldB" \in events
  /\ currentMode = IDLE
  /\ countdownFinished

\* The state of a countdown run loaded with run.loaded seconds, run.ticks
\* one-second ticks later, no button branch taken since
C10_RunState ==
  (run.clean /\ run.loaded > 0) =>
    /\ currentMode = COUNTDOWN
    /\ IF run.ticks < run.loaded
       THEN /\ countdownSeconds = run.loaded - run.ticks
            /\ isCountdownRunning
            /\ ~ countdownFinished
            /\ lcdRow1 = Printed(TimeLine(countdownSeconds))
       ELSE /\ countdownSeconds = 0
            /\ ~ isCountdownRunning
            /\ countdownFinished
            /\ lcdRow1 = Printed(TXT_TIMEUP)
            /\ ledPin = HIGH

\* C10  Countdown run to expiry: a short click of B at remaining 0 selects
\* COUNTDOWN and starts a run at the configured duration D; with no further
\* button input the remaining seconds are D minus the ticks so far, and from
\* the D-th tick on the run is stopped and flagged finished, row 2 shows the
\* TIME UP text and LED_PIN is HIGH.  While loop() keeps being called, a run
\* with enough calls left in the explored horizon reaches that state unless
\* a button is touched.
C10_CountdownRunsToExpiry ==
  /\ []C10_RunState
  /\ (/\ run.clean
      /\ run.quiet
      /\ isCountdownRunning
      /\ iter + countdownSeconds <= MaxIterLong)
       ~> (countdownFinished \/ ~ run.clean \/ ~ run.quiet)

\* The D-th tick of an undisturbed run has just expired it
C10_Witness ==
  /\ run.clean
  /\ run.loaded > 0
  /\ run.ticks = run.loaded
  /\ "Expire" \in events
  /\ countdownFinished

\* C11  Short click of A in STOPWATCH mode: the action only toggles
\* isStopwatchRunning; stopwatchSeconds, countdownSeconds,
\* initialCountdownSetting, isCountdownRunning, countdownFinished and
\* currentMode are after the action what they were before it.
C11_ShortAOnlyToggles ==
  [][\E a \in {AfterA(Cur, now', lastRawA')} :
       ("ShortA" \in a.events /\ currentMode = STOPWATCH) =>
         /\ a.isStopwatchRunning = ~ isStopwatchRunning
         /\ a.stopwatchSeconds = stopwatchSeconds
         /\ a.countdownSeconds = countdownSeconds
         /\ a.initialCountdownSetting = initialCountdownSetting
         /\ a.isCountdownRunning = isCountdownRunning
         /\ a.countdownFinished = countdownFinished
         /\ a.currentMode = currentMode]_vars

\* A short click of A has paused the stopwatch with seconds on the counter
C11_Witness ==
  /\ "ShortA" \in events
  /\ currentMode = STOPWATCH
  /\ ~ isStopwatchRunning
  /\ stopwatchSeconds > 0

\* C12  Long press of A: right after the action both counters are 0, both
\* running flags and countdownFinished are false and the mode is IDLE, with
\* initialCountdownSetting as it was before the action; and the action fires
\* once per stable hold of A: in the first loop() call that finds A held for
\* 800 or more, and never again while A stays pressed.
C12_LongAFullReset ==
  [][\E b \in {AfterB(Cur, now', lastRawA', lastRawB')},
        ha \in {AfterHoldA(Cur, now', lastRawA', lastRawB')} :
       /\ "LongA" \in ha.events =>
            /\ ha.stopwatchSeconds = 0
            /\ ha.countdownSeconds = 0
            /\ ~ ha.isStopwatchRunning
            /\ ~ ha.isCountdownRunning
            /\ ~ ha.countdownFinished
            /\ ha.currentMode = IDLE
            /\ ha.initialCountdownSetting = b.initialCountdownSetting
       /\ hold'.firedA <= 1
       /\ (stableA' = LOW /\ Elapsed(now', hold'.pressedA) >= LONGPRESS_MS)
            => hold'.firedA = 1]_vars

\* A is still held well after its long press zeroed a countdown in progress
C12_Witness ==
  /\ stableA = LOW
  /\ Elapsed(now, hold.pressedA) >= LONGPRESS_MS + 2 * HOLD_REPEAT_MS
  /\ hold.firedA = 1
  /\ "LongA" \notin events
  /\ run.loaded > run.ticks
  /\ countdownSeconds = 0
  /\ currentMode = IDLE

\* Row 2 of the display reads "B : CD For : " followed by the digits of v
ShowsSetting(row, v) ==
  /\ SubSeq(row, 1, Len(TXT_IDLE_B)) = TXT_IDLE_B
  /\ SubSeq(row, Len(TXT_IDLE_B) + 1, Len(TXT_IDLE_B) + Len(Dec(v))) = Dec(v)

\* C13  Firing of the B hold action: right after it the mode is IDLE and the
\* configured duration is the stepped (or wrapped) value, while
\* stopwatchSeconds, countdownSeconds and both running flags are what they
\* were before it; row 2 of the display shows the new duration right after
\* the firing and at the end of the loop() call.
C13_HoldBOnlyConfigures ==
  [][\E ha \in {AfterHoldA(Cur, now', lastRawA', lastRawB')},
        hb \in {AfterHoldB(Cur, now', lastRawA', lastRawB')} :
       "HoldB" \in hb.events =>
         /\ hb.currentMode = IDLE
         /\ hb.initialCountdownSetting =
              (IF ha.initialCountdownSetting = COUNT_MAX THEN COUNT_MIN
               ELSE ha.initialCountdownSetting + COUNT_STEP)
         /\ hb.stopwatchSeconds = ha.stopwatchSeconds
         /\ hb.countdownSeconds = ha.countdownSeconds
         /\ hb.isStopwatchRunning = ha.isStopwatchRunning
         /\ hb.isCountdownRunning = ha.isCountdownRunning
         /\ ShowsSetting(hb.lcdRow1, hb.initialCountdownSetting)
         /\ currentMode' = IDLE
         /\ ShowsSetting(lcdRow1', initialCountdownSetting')]_vars

\* The thirtieth firing of one hold has wrapped the duration from 300 to 10
C13_Witness ==
  /\ "HoldB" \in events
  /\ hold.firedB = COUNT_MAX \div COUNT_STEP
  /\ initialCountdownSetting = COUNT_MIN
  /\ ShowsSetting(lcdRow1, COUNT_MIN)

\* C14 as stated: while the LED section stays in one blinking branch from
\* one loop() call to the next (a timer running: period 500; no timer
\* running and countdownFinished set: period 700, in every mode), the level
\* left on LED_PIN at the end of the call is the opposite of the level left
\* by the previous call when the period has elapsed since the last toggle,
\* and the same level otherwise.
C14_FinishedBlink ==
  [][\E due \in {Elapsed(now', lastLedToggle)} :
       /\ (/\ isStopwatchRunning \/ isCountdownRunning
           /\ isStopwatchRunning' \/ isCountdownRunning')
            => ledPin' = (IF due >= LED_BLINK_MS THEN ~ ledPin ELSE ledPin)
       /\ (/\ ~ (isStopwatchRunning \/ isCountdownRunning) /\ countdownFinished
           /\ ~ (isStopwatchRunning' \/ isCountdownRunning')
           /\ countdownFinished')
            => ledPin' = (IF due >= TIMEUP_BLINK_MS THEN ~ ledPin ELSE ledPin)]_vars

\* A call in the TIME UP display toggled the blink phase to off and left
\* LED_PIN on
C14_Witness ==
  /\ currentMode = COUNTDOWN
  /\ countdownFinished
  /\ "Expire" \notin events
  /\ lastLedToggle = now
  /\ ledState = LOW
  /\ ledPin = HIGH

\* C15  Clock wraparound: in runs that cross the wrap of millis(), every
\* loop() call gives the same events, timer state, display and LED as the
\* same call made with the same pin levels on the state with all timestamps
\* and the clock moved by half the clock range (where nothing wraps): the
\* result is the moved result.  No long press of A and no hold firing of B
\* happens before the button was held for 800 of plain time, and a tick is
\* taken in every call made 1000 or more of plain time after the last one.
C15_WrapTolerance ==
  [][/\ loop(Shifted(Cur), Shift(now'), lastRawA', lastRawB') = Shifted(Cur')
     /\ "LongA" \in events'
          => Since(now') - Since(hold'.pressedA) >= LONGPRESS_MS
     /\ "HoldB" \in events'
          => Since(now') - Since(hold'.pressedB) >= LONGPRESS_MS
     /\ Since(now') - Since(lastTick) >= TICK_MS => "Tick" \in events']_vars

\* The long press of A fires after the wrap for a press accepted before it
C15_Witness ==
  /\ "LongA" \in events
  /\ now.hi = 0
  /\ pressStartA.hi = LIMB - 1
  /\ Since(now) - Since(hold.pressedA) >= LONGPRESS_MS

\* C16  Short click of B: right after the action the mode is COUNTDOWN, the
\* stopwatch is stopped and countdownFinished is false, with stopwatchSeconds
\* and initialCountdownSetting as before it; a running countdown is paused
\* at the same countdownSeconds, a stopped one at 0 is reloaded with
\* initialCountdownSetting and started, and a stopped one above 0 is started
\* at the same countdownSeconds.
C16_ShortBCases ==
  [][\E a \in {AfterA(Cur, now', lastRawA')},
        b \in {AfterB(Cur, now', lastRawA', lastRawB')} :
       "ShortB" \in b.events =>
         /\ b.currentMode = COUNTDOWN
         /\ ~ b.isStopwatchRunning
         /\ ~ b.countdownFinished
         /\ b.stopwatchSeconds = a.stopwatchSeconds
         /\ b.initialCountdownSetting = a.initialCountdownSetting
         /\ IF a.isCountdownRunning
            THEN ~ b.isCountdownRunning
                 /\ b.countdownSeconds = a.countdownSeconds
            ELSE IF a.countdownSeconds = 0
            THEN b.isCountdownRunning
                 /\ b.countdownSeconds = a.initialCountdownSetting
            ELSE b.isCountdownRunning
                 /\ b.countdownSeconds = a.countdownSeconds]_vars

\* A short click of B has resumed a paused countdown, after an earlier one
\* had stopped a stopwatch with seconds on its counter
C16_Witness ==
  /\ "ShortB" \in events
  /\ "Reload" \notin events
  /\ isCountdownRunning
  /\ countdownSeconds < run.loaded
  /\ stopwatchSeconds > 0

\* C17  Hold-repeat cadence of B, within one stable hold: no firing of the
\* hold action before the hold has lasted 800; the first firing in the first
\* loop() call that finds it at 800 or more; a later firing only when 350 or
\* more have elapsed since the previous firing, and in every call that finds
\* B still held then; and a release after a firing performs no short click.
C17_HoldRepeatCadence ==
  [][\E held \in {Elapsed(now', hold'.pressedB)},
        since \in {Elapsed(now', hold.lastB)} :
       /\ "HoldB" \in events' => stableB' = LOW /\ held >= LONGPRESS_MS
       /\ (stableB' = LOW /\ held >= LONGPRESS_MS) => hold'.firedB >= 1
       /\ ("HoldB" \in events' /\ hold'.firedB >= 2)
            => since >= HOLD_REPEAT_MS
       /\ (stableB' = LOW /\ hold.firedB >= 1 /\ "PressB" \notin events'
             /\ since >= HOLD_REPEAT_MS) => "HoldB" \in events'
       /\ ("ReleaseB" \in events' /\ hold.firedB >= 1)
            => "ShortB" \notin events']_vars

\* B is released after its hold action fired at 800 and again 350 later
C17_Witness ==
  /\ "ReleaseB" \in events
  /\ hold.firedB = 2
  /\ Elapsed(hold.lastB, hold.pressedB) = LONGPRESS_MS + HOLD_REPEAT_MS
  /\ "ShortB" \notin events

\* A running countdown has seconds left
C18_EndOfCall == isCountdownRunning => countdownSeconds > 0

\* C18  At the end of every loop() call a running countdown has
\* countdownSeconds > 0; and whenever the tick block is entered with the
\* countdown running, countdownSeconds > 0 there too, so the decrement of
\* line 220 is never skipped for a running countdown.
C18_RunningImpliesPositive ==
  /\ []C18_EndOfCall
  /\ [][\E hb \in {AfterHoldB(Cur, now', lastRawA', lastRawB')} :
          hb.isCountdownRunning => hb.countdownSeconds > 0]_vars

\* A short click of B resumed the countdown at its last second and the tick
\* of the same loop() call expired it
C18_Witness ==
  /\ {"ShortB", "Tick", "Expire"} \subseteq events
  /\ ~ isCountdownRunning
  /\ countdownSeconds = 0

\* C19  At the end of every loop() call: countdownFinished implies that
\* countdownSeconds is 0 and that neither timer is running; and COUNTDOWN
\* mode with countdownSeconds at 0 implies countdownFinished, so the TIME UP
\* text is on row 2 only after a countdown has expired.
C19_FinishedMeansExpired ==
  /\ countdownFinished =>
       /\ countdownSeconds = 0
       /\ ~ isStopwatchRunning
       /\ ~ isCountdownRunning
  /\ (currentMode = COUNTDOWN /\ countdownSeconds = 0) => countdownFinished
  /\ lcdRow1 = Printed(TXT_TIMEUP) => countdownFinished

\* The countdown has just expired and row 2 shows the TIME UP text
C19_Witness ==
  /\ "Expire" \in events
  /\ currentMode = COUNTDOWN
  /\ countdownSeconds = 0
  /\ countdownFinished
  /\ lcdRow1 = Printed(TXT_TIMEUP)

\* The two lines updateLCD() computes for a mode and the three values
LinesFor(mode, stopwatch, countdown, setting) ==
  IF mode = STOPWATCH
  THEN <<TXT_STOPWATCH, TXT_INDENT \o formatTime(stopwatch)>>
  ELSE IF mode = COUNTDOWN
  THEN <<TXT_COUNTDOWN,
         IF countdown > 0 THEN TXT_INDENT \o formatTime(countdown)
         ELSE TXT_TIMEUP>>
  ELSE <<TXT_IDLE_A, Take16(TXT_IDLE_B \o Dec(setting) \o <<"s">>)>>

\* C20  Render cache consistency: at the end of every loop() call
\* lastShownMode is currentMode, lastLine0 and lastLine1 are the two lines
\* the renderer computes from currentMode, stopwatchSeconds, countdownSeconds
\* and initialCountdownSetting, and the two display rows show those lines.
C20_RenderCacheConsistent ==
  \E lines \in {LinesFor(currentMode, stopwatchSeconds, countdownSeconds,
                         initialCountdownSetting)} :
    /\ lastShownMode = currentMode
    /\ lastLine0 = lines[1]
    /\ lastLine1 = lines[2]
    /\ lcdRow0 = Printed(lines[1])
    /\ lcdRow1 = Printed(lines[2])

\* A call that changed the mode and ticked the stopwatch has left the cache
\* on the new mode and the new time
C20_Witness ==
  /\ {"ShortA", "Tick"} \subseteq events
  /\ currentMode = STOPWATCH
  /\ stopwatchSeconds > 0
  /\ lastShownMode = STOPWATCH
  /\ lastLine1 = TXT_INDENT \o formatTime(stopwatchSeconds)

====
